---- MODULE Spec2Model ----
(***************************************************************************)
(* Model of pdf_generator.py: the interactive loop of main(), one request  *)
(* of process_document() (choose data file and template, load, resolve the *)
(* entity kind, aggregate, bind the template, write the PDF) and the pure  *)
(* functions it uses (load_data, the CSV coercion, the filters, the total).*)
(*                                                                         *)
(* Python values are records [t, n, s]: t is the type tag, n the number    *)
(* (a float keeps its value in tenths), s the text as a sequence of        *)
(* one-character strings.  A record of the data (a dict) is a function     *)
(* from field names to such values; a missing key is a field outside its   *)
(* DOMAIN.                                                                 *)
(***************************************************************************)
EXTENDS Integers, Sequences, FiniteSets, TLC

\* ------------------------------------------------------------------ bounds
\* Most records (rows) a generated data file holds.
MaxRecords == 2
\* Most numbers typed into the multi-select menu in one answer.
MaxSel == 2
\* Most requests main()'s loop runs in one behaviour.
MaxRequests == 2

\* ------------------------------------------------------------ Python values
PyIntV(k) == [t |-> "int", n |-> k, s |-> <<>>]
PyFloatV(tenths) == [t |-> "float", n |-> tenths, s |-> <<>>]
PyStrV(chars) == [t |-> "str", n |-> 0, s |-> chars]
PyNone == [t |-> "none", n |-> 0, s |-> <<>>]
PyNaN == [t |-> "nan", n |-> 0, s |-> <<>>]

\* Characters of file names and cell texts in ASCII order; Ord is the rank.
Alphabet == <<"-", ".", "0", "1", "2", "3", "4", "5", "6", "7", "8", "9",
              "O", "P", "R", "W", "X", "Y", "_",
              "a", "b", "c", "d", "e", "g", "i", "j", "n", "o", "p", "r",
              "s", "t", "u", "v", "w", "x">>
Ord(c) == CHOOSE i \in 1..Len(Alphabet) : Alphabet[i] = c

\* str.lower() on one character and on a text.
LowerChar(c) ==
    CASE c = "O" -> "o" [] c = "P" -> "p" [] c = "R" -> "r"
      [] c = "W" -> "w" [] c = "X" -> "x" [] c = "Y" -> "y"
      [] OTHER -> c
Lower(s) == [i \in 1..Len(s) |-> LowerChar(s[i])]

\* Lexicographic order of two texts (Python's str <, by code point).
RECURSIVE StrLess(_, _)
StrLess(a, b) ==
    IF b = <<>> THEN FALSE
    ELSE IF a = <<>> THEN TRUE
    ELSE IF a[1] # b[1] THEN Ord(a[1]) < Ord(b[1])
    ELSE StrLess(Tail(a), Tail(b))

Digits == <<"0", "1", "2", "3", "4", "5", "6", "7", "8", "9">>
IsDigit(c) == \E i \in 1..10 : Digits[i] = c
DigitVal(c) == (CHOOSE i \in 1..10 : Digits[i] = c) - 1

\* The value of a text of decimal digits.
RECURSIVE DigitsVal(_)
DigitsVal(s) ==
    IF s = <<>> THEN 0
    ELSE DigitsVal(SubSeq(s, 1, Len(s) - 1)) * 10 + DigitVal(s[Len(s)])

AllDigits(s) == s # <<>> /\ \A i \in 1..Len(s) : IsDigit(s[i])

\* An integer literal: an optional sign and digits.
IsIntLit(s) ==
    IF s # <<>> /\ s[1] = "-" THEN AllDigits(Tail(s)) ELSE AllDigits(s)
IntLitVal(s) ==
    IF s[1] = "-" THEN 0 - DigitsVal(Tail(s)) ELSE DigitsVal(s)

\* A decimal literal with one fractional digit ("2.5"); its value in tenths.
IsFloatLit(s) ==
    /\ Len(s) >= 3
    /\ s[Len(s) - 1] = "."
    /\ IsDigit(s[Len(s)])
    /\ IsIntLit(SubSeq(s, 1, Len(s) - 2))
FloatLitTenths(s) ==
    LET whole == SubSeq(s, 1, Len(s) - 2)
        frac == DigitVal(s[Len(s)])
    IN IF whole[1] = "-" THEN IntLitVal(whole) * 10 - frac
       ELSE IntLitVal(whole) * 10 + frac

\* Truncation toward zero of a value in tenths (int(float), astype(int)).
Trunc(tenths) ==
    IF tenths >= 0 THEN tenths \div 10 ELSE 0 - ((0 - tenths) \div 10)

\* bool(v): the truth value Python gives a value.
PyTruthy(v) ==
    CASE v.t = "int" -> v.n # 0
      [] v.t = "float" -> v.n # 0
      [] v.t = "str" -> v.s # <<>>
      [] v.t = "nan" -> TRUE
      [] OTHER -> FALSE

IsNum(v) == v.t \in {"int", "float"}
Scaled(v) == IF v.t = "int" THEN v.n * 10 ELSE v.n

\* a == b in Python: numbers by value, texts by content, nan never.
PyEq(a, b) ==
    CASE IsNum(a) /\ IsNum(b) -> Scaled(a) = Scaled(b)
      [] a.t = "str" /\ b.t = "str" -> a.s = b.s
      [] a.t = "none" /\ b.t = "none" -> TRUE
      [] OTHER -> FALSE

\* a < b in Python where it is defined (PyComparable).
PyComparable(a, b) ==
    \/ IsNum(a) /\ IsNum(b)
    \/ a.t = "str" /\ b.t = "str"
PyLess(a, b) ==
    IF a.t = "str" THEN StrLess(a.s, b.s) ELSE Scaled(a) < Scaled(b)

\* int(v): [ok, n]; not ok stands for the ValueError or TypeError raised.
PyInt(v) ==
    CASE v.t = "int" -> [ok |-> TRUE, n |-> v.n]
      [] v.t = "float" -> [ok |-> TRUE, n |-> Trunc(v.n)]
      [] v.t = "str" /\ IsIntLit(v.s) -> [ok |-> TRUE, n |-> IntLitVal(v.s)]
      [] OTHER -> [ok |-> FALSE, n |-> 0]

\* dict.get(key) and dict.get(key, 0).
Get(o, f) == IF f \in DOMAIN o THEN o[f] ELSE PyNone
Get0(o, f) == IF f \in DOMAIN o THEN o[f] ELSE PyIntV(0)

\* ------------------------------------------------------- files and listings
Txt(s) == PyStrV(s)

N_order_csv == <<"o","r","d","e","r","_","1",".","c","s","v">>
N_order_json == <<"o","r","d","e","r","_","1",".","j","s","o","n">>
N_order_txt == <<"o","r","d","e","r","_","1",".","t","x","t">>
N_invoice_json == <<"i","n","v","o","i","c","e","_","1",".","j","s","o","n">>
N_product_json == <<"P","r","o","d","u","c","t","_","1",".","j","s","o","n">>
N_widget_json == <<"w","i","d","g","e","t","_","1",".","j","s","o","n">>

\* The data directories a request may find: the sample files of
\* generate_test_data under other names and formats, a file of an unknown
\* entity, a file of an unsupported format, and zero, one or two order files.
CommonFiles == {N_invoice_json, N_product_json, N_widget_json, N_order_txt}
Layouts == {CommonFiles \cup o : o \in SUBSET {N_order_csv, N_order_json}}

\* Path.suffix and Path.stem: the name from, and up to, its last dot.
LastDot(name) ==
    IF \E i \in 2..Len(name) : name[i] = "."
    THEN CHOOSE i \in 2..Len(name) :
            name[i] = "." /\ \A j \in (i + 1)..Len(name) : name[j] # "."
    ELSE 0
Suffix(name) ==
    IF LastDot(name) = 0 THEN <<>> ELSE SubSeq(name, LastDot(name), Len(name))
Stem(name) ==
    IF LastDot(name) = 0 THEN name ELSE SubSeq(name, 1, LastDot(name) - 1)

\* s.split("_")[0]: the text before the first underscore.
RECURSIVE SplitFirst(_)
SplitFirst(s) ==
    IF s = <<>> \/ s[1] = "_" THEN <<>> ELSE <<s[1]>> \o SplitFirst(Tail(s))

\* Path.glob of a pattern "<pre>*<suf>", case-sensitive.
Glob(pre, suf, name) ==
    /\ Len(name) >= Len(pre) + Len(suf)
    /\ SubSeq(name, 1, Len(pre)) = pre
    /\ SubSeq(name, Len(name) - Len(suf) + 1, Len(name)) = suf

\* sorted() of a set of names.
RECURSIVE SortNames(_)
SortNames(S) ==
    IF S = {} THEN <<>>
    ELSE LET m == CHOOSE x \in S : \A y \in S \ {x} : StrLess(x, y)
         IN <<m>> \o SortNames(S \ {m})

list_files(dir, pre, suf) == SortNames({f \in dir : Glob(pre, suf, f)})

P_order == <<"o","r","d","e","r","_">>
S_csv == <<".","c","s","v">>
S_json == <<".","j","s","o","n">>

\* order_files of process_document: the CSV order files, then the JSON ones.
OrderFiles(dir) == list_files(dir, P_order, S_csv) \o list_files(dir, P_order, S_json)

\* ------------------------------------------------------------ file contents
\* A file body is [kind, rows]: kind "json" (an array of objects, rows of
\* Python values as json.load returns them), "csv" (a header and rows of
\* text cells), or "bad" (an empty file, which neither parser accepts).
BadBody == [kind |-> "bad", rows |-> <<>>]
Unread == [kind |-> "unread", rows |-> <<>>]

T_X == <<"X">>
T_Y == <<"Y">>
T_abc == <<"a","b","c">>

OrderRow(name, inv, q, p) ==
    [product_name |-> name, invoice_number |-> inv, quantity |-> q, price |-> p]

\* Rows of a JSON order file: well-formed lines (those of the scenario with
\* invoice 3 among them), a line of invoice 0 without a price, a line with
\* a malformed quantity, and a line whose invoice number is a text.
JsonOrderRows ==
    { OrderRow(Txt(T_X), PyIntV(3), PyIntV(2), PyIntV(7000)),
      OrderRow(Txt(T_Y), PyIntV(3), PyIntV(1), PyIntV(1500)),
      OrderRow(Txt(T_X), PyIntV(1), PyIntV(2), PyIntV(3)),
      [product_name |-> Txt(T_X), invoice_number |-> PyIntV(0), quantity |-> Txt(<<"2">>)],
      OrderRow(Txt(T_Y), PyIntV(1), Txt(T_abc), PyIntV(5)),
      OrderRow(Txt(T_X), Txt(<<"3">>), PyIntV(0 - 1), PyFloatV(25)) }

\* Rows of a CSV order file, every cell a text.
CsvOrderRows ==
    { OrderRow(Txt(T_X), Txt(<<"3">>), Txt(<<"2">>), Txt(<<"7","0","0","0">>)),
      OrderRow(Txt(T_Y), Txt(<<"3">>), Txt(<<"1">>), Txt(<<"1","5","0","0">>)),
      OrderRow(Txt(T_X), Txt(<<"1">>), Txt(T_abc), Txt(<<"2",".","5">>)),
      OrderRow(Txt(<<"0","7">>), Txt(<<>>), Txt(<<"-","1">>), Txt(<<"5">>)) }

\* The sequences over S of at most n elements.
SeqsUpTo(S, n) == UNION {[1..k -> S] : k \in 0..n}

\* The "id" column: the position of the record in the file.
WithJsonIds(rows) == [i \in 1..Len(rows) |-> ("id" :> PyIntV(i)) @@ rows[i]]
WithCsvIds(rows) == [i \in 1..Len(rows) |-> ("id" :> Txt(<<Digits[i + 1]>>)) @@ rows[i]]

JsonOrderBodies ==
    {[kind |-> "json", rows |-> WithJsonIds(r)] : r \in SeqsUpTo(JsonOrderRows, MaxRecords)}
CsvOrderBodies ==
    {[kind |-> "csv", rows |-> WithCsvIds(r)] : r \in SeqsUpTo(CsvOrderRows, MaxRecords)}

Invoice(id, total) == [id |-> id, total |-> total]
InvoiceBodies ==
    { [kind |-> "json", rows |-> <<Invoice(PyIntV(3), PyIntV(70500)), Invoice(PyIntV(4), PyIntV(6000))>>],
      [kind |-> "json", rows |-> <<Invoice(PyIntV(1), PyIntV(9)), [total |-> PyIntV(5)]>>],
      [kind |-> "json", rows |-> <<>>] }

Product(id, name) == [id |-> id, name |-> name]
ProductBodies ==
    { [kind |-> "json", rows |-> <<Product(PyIntV(1), Txt(T_X)), Product(PyIntV(2), Txt(T_Y)),
                                   Product(PyIntV(3), Txt(T_abc))>>],
      [kind |-> "json", rows |-> <<>>] }

\* The JSON order file next to a CSV order file holds at most one record.
SmallJsonOrderBodies == {b \in JsonOrderBodies : Len(b.rows) <= 1}

\* What a read of the file may find in it, in the directory d.
Bodies(d, name) ==
    CASE name = N_order_json /\ N_order_csv \in d -> SmallJsonOrderBodies \cup {BadBody}
      [] name = N_order_json /\ N_order_csv \notin d -> JsonOrderBodies \cup {BadBody}
      [] name = N_order_csv -> CsvOrderBodies \cup {BadBody}
      [] name = N_invoice_json -> InvoiceBodies \cup {BadBody}
      [] name = N_product_json -> ProductBodies
      [] name = N_widget_json -> {[kind |-> "json", rows |-> <<>>]}
      [] OTHER -> {BadBody}

\* --------------------------------------------------------------- load_data
CoercedFields == {"quantity", "price", "invoice_number"}

\* pd.to_numeric(errors="coerce") on one cell: a number, or NaN.
ToNumeric(cell) ==
    CASE IsIntLit(cell.s) -> PyIntV(IntLitVal(cell.s))
      [] IsFloatLit(cell.s) -> PyFloatV(FloatLitTenths(cell.s))
      [] OTHER -> PyNaN
\* .fillna(0)
FillNa0(v) == IF v.t = "nan" THEN PyIntV(0) ELSE v
\* .astype(int)
AsTypeInt(v) == PyIntV(IF v.t = "float" THEN Trunc(v.n) ELSE v.n)

\* load_data lines 344-349: the coercion of one cell of a numeric column.
CsvCoerce(cell) == AsTypeInt(FillNa0(ToNumeric(cell)))

\* pd.read_csv on a column that is not coerced: integers when every cell is
\* one, floats when every cell is a number or empty, else texts; an empty
\* cell is NaN.
InferCell(cell, col) ==
    LET cells == {col[i] : i \in 1..Len(col)}
        allInt == \A c \in cells : IsIntLit(c.s)
        allNum == \A c \in cells : IsIntLit(c.s) \/ IsFloatLit(c.s) \/ c.s = <<>>
    IN CASE allInt -> PyIntV(IntLitVal(cell.s))
         [] ~allInt /\ cell.s = <<>> -> PyNaN
         [] ~allInt /\ allNum /\ cell.s # <<>> ->
                PyFloatV(Scaled(ToNumeric(cell)))
         [] OTHER -> cell

\* load_data lines 342-350: the records of a CSV table.
CsvRecords(rows) ==
    [i \in 1..Len(rows) |->
        [f \in DOMAIN rows[i] |->
            IF f \in CoercedFields THEN CsvCoerce(rows[i][f])
            ELSE InferCell(rows[i][f], [k \in 1..Len(rows) |-> rows[k][f]])]]

\* load_data: [ok, rows]; not ok stands for the exception raised (an
\* unsupported suffix, a file json.load or read_csv cannot parse).
load_data(name, body) ==
    IF Lower(Suffix(name)) = S_json
    THEN IF body.kind = "json" THEN [ok |-> TRUE, rows |-> body.rows]
         ELSE [ok |-> FALSE, rows |-> <<>>]
    ELSE IF Lower(Suffix(name)) = S_csv
    THEN IF body.kind = "csv" THEN [ok |-> TRUE, rows |-> CsvRecords(body.rows)]
         ELSE [ok |-> FALSE, rows |-> <<>>]
    ELSE [ok |-> FALSE, rows |-> <<>>]

\* ------------------------------------------------------------- aggregation
\* A filter that stops at the first matching record.
RECURSIVE FilterFirstOnly(_, _)
FilterFirstOnly(all, target) ==
    IF all = <<>> THEN <<>>
    ELSE IF PyEq(Get(all[1], "invoice_number"), target) THEN <<all[1]>>
    ELSE FilterFirstOnly(Tail(all), target)

\* [o for o in all_orders if o.get("invoice_number") == target]
RECURSIVE FilterByInvoice(_, _)
FilterByInvoice(all, target) ==
    IF all = <<>> THEN <<>>
    ELSE (IF PyEq(Get(all[1], "invoice_number"), target) THEN <<all[1]>> ELSE <<>>)
         \o FilterByInvoice(Tail(all), target)

\* [o.get("invoice_number") for o in all_orders if o.get("invoice_number")]
RECURSIVE TruthyInvoiceNumbers(_)
TruthyInvoiceNumbers(all) ==
    IF all = <<>> THEN <<>>
    ELSE (IF PyTruthy(Get(all[1], "invoice_number"))
          THEN <<Get(all[1], "invoice_number")>> ELSE <<>>)
         \o TruthyInvoiceNumbers(Tail(all))

\* set(list): the values without repetition (== decides), the first of
\* equal values kept.
RECURSIVE PySet(_)
PySet(l) ==
    IF l = <<>> THEN <<>>
    ELSE LET init == PySet(SubSeq(l, 1, Len(l) - 1))
             x == l[Len(l)]
         IN IF \E i \in 1..Len(init) : PyEq(init[i], x) THEN init
            ELSE Append(init, x)

\* sorted(values) of pairwise distinct, pairwise comparable values.
RECURSIVE PySorted(_)
PySorted(l) ==
    IF l = <<>> THEN <<>>
    ELSE LET m == CHOOSE i \in 1..Len(l) :
                    \A j \in 1..Len(l) : j = i \/ PyLess(l[i], l[j])
         IN <<l[m]>> \o PySorted([k \in 1..(Len(l) - 1) |-> IF k < m THEN l[k] ELSE l[k + 1]])

\* The invoice numbers left in the order the records give them.
InvoiceNumbersUnsorted(all) ==
    LET vals == PySet(TruthyInvoiceNumbers(all))
    IN IF \A i, j \in 1..Len(vals) : PyComparable(vals[i], vals[j])
       THEN [ok |-> TRUE, list |-> vals]
       ELSE [ok |-> FALSE, list |-> <<>>]

\* process_document line 576: [ok, list]; not ok stands for the TypeError
\* sorted() raises on values it cannot compare.
InvoiceNumbers(all) ==
    LET vals == PySet(TruthyInvoiceNumbers(all))
    IN IF \A i, j \in 1..Len(vals) : PyComparable(vals[i], vals[j])
       THEN [ok |-> TRUE, list |-> PySorted(vals)]
       ELSE [ok |-> FALSE, list |-> <<>>]

\* A total that adds the prices and forgets the quantities.
RECURSIVE TotalOfPrices(_)
TotalOfPrices(lines) ==
    IF lines = <<>> THEN [ok |-> TRUE, n |-> 0]
    ELSE LET q == PyInt(Get0(lines[1], "quantity"))
             p == PyInt(Get0(lines[1], "price"))
             rest == TotalOfPrices(Tail(lines))
         IN IF q.ok /\ p.ok /\ rest.ok THEN [ok |-> TRUE, n |-> p.n + rest.n]
            ELSE [ok |-> FALSE, n |-> 0]

\* process_document line 588: [ok, n]; not ok stands for the ValueError or
\* TypeError int() raises.
RECURSIVE TotalSum(_)
TotalSum(lines) ==
    IF lines = <<>> THEN [ok |-> TRUE, n |-> 0]
    ELSE LET q == PyInt(Get0(lines[1], "quantity"))
             p == PyInt(Get0(lines[1], "price"))
             rest == TotalSum(Tail(lines))
         IN IF q.ok /\ p.ok /\ rest.ok THEN [ok |-> TRUE, n |-> q.n * p.n + rest.n]
            ELSE [ok |-> FALSE, n |-> 0]

\* [all_data[idx] for idx in selected_indices]
SelectProducts(all, indices) == [k \in 1..Len(indices) |-> all[indices[k] + 1]]

\* ------------------------------------------------------------ file naming
\* str(n) of a natural number, and of a value (the f-string's formatting).
RECURSIVE NatStr(_)
NatStr(n) == IF n < 10 THEN <<Digits[n + 1]>> ELSE NatStr(n \div 10) \o <<Digits[(n % 10) + 1]>>
IntStr(n) == IF n < 0 THEN <<"-">> \o NatStr(0 - n) ELSE NatStr(n)
PyStr(v) ==
    CASE v.t = "int" -> IntStr(v.n)
      [] v.t = "float" -> IntStr(Trunc(v.n)) \o <<".">> \o NatStr((IF v.n < 0 THEN 0 - v.n ELSE v.n) % 10)
      [] v.t = "str" -> v.s
      [] v.t = "nan" -> <<"n","a","n">>
      [] OTHER -> <<"N","o","n","e">>

E_pdf == <<".","p","d","f">>
K_invoice == <<"i","n","v","o","i","c","e">>
K_product == <<"p","r","o","d","u","c","t">>
K_order == <<"o","r","d","e","r">>

\* process_document line 531
InvoiceFileName(inv) == K_invoice \o <<"_">> \o PyStr(inv["id"]) \o E_pdf
\* process_document lines 551-554
ProductFileName(products) ==
    IF Len(products) = 1
    THEN K_product \o <<"_">> \o PyStr(products[1]["id"]) \o E_pdf
    ELSE K_product \o <<"s","_">> \o NatStr(Len(products)) \o E_pdf
\* A name built like the other paths' names, from the kind and the number.
OrderFileNameByKind(num) == K_order \o <<"_">> \o PyStr(num) \o E_pdf

\* process_document line 591
OrderFileName(num) == K_order \o <<"_">> \o K_invoice \o <<"_">> \o PyStr(num) \o E_pdf

\* -------------------------------------------------------- template binding
\* The templates directory: the three templates create_html_templates
\* writes and one more file whose template syntax is malformed.
TemplateFiles == <<"broken.html", "invoice_template.html", "order_template.html",
                   "product_template.html">>

NoRecord == <<>>
\* The context handed to generate_pdf: keys are the names it defines.
Ctx(keys, invoice, orders, products, num, total) ==
    [keys |-> keys, invoice |-> invoice, orders |-> orders, products |-> products,
     invoice_number |-> num, total |-> total]
NoCtx == Ctx({}, NoRecord, <<>>, <<>>, PyNone, 0)
NoHtml == [tpl |-> "", ctx |-> NoCtx]

\* generate_pdf lines 466-467: [ok, html]; not ok stands for the
\* TemplateSyntaxError of a malformed template, or the UndefinedError of
\* the invoice template reading invoice.id where no invoice is defined (an
\* undefined name that is only printed or iterated renders as nothing).
Render(tpl, c) ==
    CASE tpl = "broken.html" -> [ok |-> FALSE, html |-> NoHtml]
      [] tpl = "invoice_template.html" /\ "invoice" \notin c.keys -> [ok |-> FALSE, html |-> NoHtml]
      [] OTHER -> [ok |-> TRUE, html |-> [tpl |-> tpl, ctx |-> c]]

\* The entity kind read without lower().
EntityTypeCaseSensitive(name) == SplitFirst(Stem(name))

\* process_document line 509
EntityType(name) == Lower(SplitFirst(Stem(name)))

\* ------------------------------------------------------------------ state
VARIABLES
    pc,                 \* where main() and process_document() stand
    requests,           \* calls of process_document() so far
    asked,              \* calls of ask_continue() since the current request
                        \* began
    answer,             \* the last answer to ask_continue: "" (none yet),
                        \* "yes", "no", "exit"
    exit_at,            \* the prompt an exit command was typed at, "" if none
    outcome,            \* how the current request ended: "none", "success"
                        \* (returned True), "failed" (returned False),
                        \* "error" (raised an Exception), "exit" (ExitCommand)
    failed_at,          \* the stage a failed request ended in
    stages,             \* the stages the current request has run
    outputs,            \* OUTPUT_DIR: the set of [name, stamp], stamp the
                        \* request that wrote the file last
    outputs0,           \* OUTPUT_DIR when the current request began
    dir,                \* DATA_DIR: the names in it during this request
    disk,               \* what the files read in this request hold
    reads,              \* the files load_data opened in this request
    menus,              \* the entity menus shown in this request
    selected_data_file,
    selected_template,
    all_data,
    entity_type,
    selected_indices,   \* the answer to the entity menu (0-based indices)
    order_files,
    all_orders,
    invoice_numbers,
    orders,             \* orders (invoice path), orders_for_invoice (order path)
    ctx,                \* the context handed to generate_pdf
    output_filename,
    html                \* html_content of generate_pdf

vars == <<pc, requests, asked, answer, exit_at, outcome, failed_at, stages, outputs, outputs0, dir, disk,
          reads, menus, selected_data_file, selected_template, all_data,
          entity_type, selected_indices, order_files, all_orders,
          invoice_numbers, orders, ctx, output_filename, html>>

Init ==
    /\ pc = "idle"
    /\ requests = 0
    /\ asked = 0
    /\ answer = ""
    /\ exit_at = ""
    /\ outcome = "none"
    /\ failed_at = ""
    /\ stages = <<>>
    /\ outputs = {}
    /\ outputs0 = {}
    /\ dir = {}
    /\ disk = <<>>
    /\ reads = <<>>
    /\ menus = <<>>
    /\ selected_data_file = <<>>
    /\ selected_template = ""
    /\ all_data = <<>>
    /\ entity_type = <<>>
    /\ selected_indices = <<>>
    /\ order_files = <<>>
    /\ all_orders = <<>>
    /\ invoice_numbers = <<>>
    /\ orders = <<>>
    /\ ctx = NoCtx
    /\ output_filename = <<>>
    /\ html = NoHtml

\* A main whose loop has no except Exception handler: an error raised in
\* the request ends the program.
ReturnUncaught(how, stage) ==
    /\ pc' = IF how = "error" THEN "done" ELSE "ask"
    /\ asked' = IF how = "error" THEN asked ELSE asked + 1
    /\ outcome' = how
    /\ failed_at' = IF how = "success" THEN "" ELSE stage

\* process_document returns (True or False) or raises: main goes on to
\* ask_continue, from the try body (lines 639-645) or from its except
\* Exception handler (lines 653-656).
Return(how, stage) ==
    /\ pc' = "ask"
    /\ asked' = asked + 1
    /\ outcome' = how
    /\ failed_at' = IF how = "success" THEN "" ELSE stage

\* The request goes on to the next step.
Goto(next) == pc' = next /\ UNCHANGED <<asked, outcome, failed_at>>

\* What load_data finds in a file: the body read earlier in this request,
\* or any body the file may hold.
Found(name) == IF disk[name] = Unread THEN Bodies(dir, name) ELSE {disk[name]}

\* main line 639 and process_document lines 477-478: a request begins and
\* lists the data files and the templates.
StartRequest ==
    /\ pc = "idle"
    /\ requests < MaxRequests
    /\ requests' = requests + 1
    /\ outputs0' = outputs
    /\ \E d \in Layouts :
        /\ dir' = d
        /\ disk' = [f \in d |-> Unread]
    /\ pc' = "data_menu"
    /\ UNCHANGED <<asked, answer, exit_at, outcome, failed_at, stages, outputs,
                   reads, menus, selected_data_file, selected_template,
                   all_data, entity_type, selected_indices, order_files,
                   all_orders, invoice_numbers, orders, ctx, output_filename,
                   html>>

\* process_document lines 480-491: no data file or no template ends the
\* request with False; else display_menu over the data files.
ChooseDataFile ==
    /\ pc = "data_menu"
    /\ IF list_files(dir, <<>>, <<>>) = <<>> \/ TemplateFiles = <<>>
       THEN Return("failed", "list") /\ UNCHANGED selected_data_file
       ELSE /\ \E i \in 1..Len(list_files(dir, <<>>, <<>>)) :
                  selected_data_file' = list_files(dir, <<>>, <<>>)[i]
            /\ Goto("tpl_menu")
    /\ UNCHANGED <<requests, answer, exit_at, stages, outputs, outputs0, dir,
                   disk, reads, menus, selected_template, all_data,
                   entity_type, selected_indices, order_files, all_orders,
                   invoice_numbers, orders, ctx, output_filename, html>>

\* process_document lines 494-495: display_menu over the templates.
ChooseTemplate ==
    /\ pc = "tpl_menu"
    /\ \E j \in 1..Len(TemplateFiles) : selected_template' = TemplateFiles[j]
    /\ pc' = "load"
    /\ UNCHANGED <<requests, asked, answer, exit_at, outcome, failed_at,
                   stages, outputs, outputs0, dir, disk, reads, menus,
                   selected_data_file, all_data, entity_type, selected_indices,
                   order_files, all_orders, invoice_numbers, orders, ctx,
                   output_filename, html>>

\* process_document lines 500-506: load the chosen file; a failure is
\* printed and the request returns False.
LoadData ==
    /\ pc = "load"
    /\ stages' = Append(stages, "load")
    /\ \E b \in Found(selected_data_file) :
        LET r == load_data(selected_data_file, b)
        IN /\ disk' = [disk EXCEPT ![selected_data_file] = b]
           /\ reads' = Append(reads, selected_data_file)
           /\ IF r.ok
              THEN all_data' = r.rows /\ Goto("resolve")
              ELSE UNCHANGED all_data /\ Return("failed", "load")
    /\ UNCHANGED <<requests, answer, exit_at, outputs, outputs0, dir, menus,
                   selected_data_file, selected_template, entity_type,
                   selected_indices, order_files, all_orders, invoice_numbers,
                   orders, ctx, output_filename, html>>

HasKeys(rows, keys) == \A i \in 1..Len(rows) : keys \subseteq DOMAIN rows[i]

\* process_document lines 509-516, 543-547, 566 and 603-605: the entity kind
\* from the file name, and the branch it selects up to its menu.  The lists
\* the invoice and product menus show read item["id"] (and item["name"]) of
\* every record: a record without the key raises KeyError.
ResolveEntity ==
    /\ pc = "resolve"
    /\ stages' = Append(stages, "resolve")
    /\ entity_type' = EntityType(selected_data_file)
    /\ CASE entity_type' = K_invoice ->
                IF HasKeys(all_data, {"id"})
                THEN Goto("invoice_menu") /\ menus' = Append(menus, "invoice")
                ELSE Return("error", "aggregate") /\ UNCHANGED menus
         [] entity_type' = K_product ->
                IF HasKeys(all_data, {"id", "name"})
                THEN Goto("product_menu") /\ menus' = Append(menus, "product")
                ELSE Return("error", "aggregate") /\ UNCHANGED menus
         [] entity_type' = K_order ->
                Goto("order_load") /\ UNCHANGED menus
         [] OTHER -> Return("failed", "resolve") /\ UNCHANGED menus
    /\ UNCHANGED <<requests, answer, exit_at, outputs, outputs0, dir, disk,
                   reads, selected_data_file, selected_template, all_data,
                   selected_indices, order_files, all_orders, invoice_numbers,
                   orders, ctx, output_filename, html>>

\* An invoice path in which a failing load of the order file is not caught.
SelectInvoiceStrict ==
    /\ pc = "invoice_menu"
    /\ stages' = Append(stages, "aggregate")
    /\ \E i \in 1..Len(all_data) :
        LET inv == all_data[i]
            files == OrderFiles(dir)
        IN /\ selected_indices' = <<i - 1>>
           /\ order_files' = files
           /\ output_filename' = InvoiceFileName(inv)
           /\ IF files = <<>>
              THEN /\ orders' = <<>>
                   /\ Goto("bind")
                   /\ UNCHANGED <<disk, reads, all_orders>>
              ELSE \E b \in Found(files[1]) :
                    LET r == load_data(files[1], b)
                    IN /\ disk' = [disk EXCEPT ![files[1]] = b]
                       /\ reads' = Append(reads, files[1])
                       /\ all_orders' = r.rows
                       /\ orders' = FilterByInvoice(r.rows, inv["id"])
                       /\ IF r.ok THEN Goto("bind") ELSE Return("error", "aggregate")
           /\ ctx' = Ctx({"invoice", "orders"}, inv, orders', <<>>, PyNone, 0)
    /\ UNCHANGED <<requests, answer, exit_at, outputs, outputs0, dir, menus,
                   selected_data_file, selected_template, all_data,
                   entity_type, invoice_numbers, html>>

\* process_document lines 516-538: the answer to the invoice menu, the
\* order lines of the invoice (none when there is no order file or its load
\* fails), the file name and the context.
SelectInvoice ==
    /\ pc = "invoice_menu"
    /\ stages' = Append(stages, "aggregate")
    /\ \E i \in 1..Len(all_data) :
        LET inv == all_data[i]
            files == OrderFiles(dir)
        IN /\ selected_indices' = <<i - 1>>
           /\ order_files' = files
           /\ output_filename' = InvoiceFileName(inv)
           /\ IF files = <<>>
              THEN /\ orders' = <<>>
                   /\ UNCHANGED <<disk, reads, all_orders>>
              ELSE \E b \in Found(files[1]) :
                    LET r == load_data(files[1], b)
                    IN /\ disk' = [disk EXCEPT ![files[1]] = b]
                       /\ reads' = Append(reads, files[1])
                       /\ all_orders' = r.rows
                       /\ orders' = IF r.ok THEN FilterByInvoice(r.rows, inv["id"])
                                    ELSE <<>>
           /\ ctx' = Ctx({"invoice", "orders"}, inv, orders', <<>>, PyNone, 0)
    /\ pc' = "bind"
    /\ UNCHANGED <<requests, asked, answer, exit_at, outcome, failed_at,
                   outputs, outputs0, dir, menus, selected_data_file,
                   selected_template, all_data, entity_type, invoice_numbers,
                   html>>

\* What display_multi_select_menu returns: range(len(items)) for "all",
\* else the numbers typed, each less one, when all are in range.
Selections(n) ==
    {[k \in 1..n |-> k - 1]} \cup
    UNION {[1..len -> 0..(n - 1)] : len \in 1..MaxSel}

\* process_document lines 547-561: the answer to the product menu, the
\* selected products, the file name and the context.
ChooseProducts ==
    /\ pc = "product_menu"
    /\ stages' = Append(stages, "aggregate")
    /\ \E sel \in Selections(Len(all_data)) :
        LET products == SelectProducts(all_data, sel)
        IN /\ selected_indices' = sel
           /\ output_filename' = ProductFileName(products)
           /\ ctx' = Ctx({"products"}, NoRecord, <<>>, products, PyNone, 0)
    /\ pc' = "bind"
    /\ UNCHANGED <<requests, asked, answer, exit_at, outcome, failed_at,
                   outputs, outputs0, dir, disk, reads, menus,
                   selected_data_file, selected_template, all_data,
                   entity_type, order_files, all_orders, invoice_numbers,
                   orders, html>>

\* process_document lines 568-581: the first order file is loaded and its
\* invoice numbers listed for the menu.  No order file: the request returns
\* False; a load or a sort that raises ends the request with that error.
LoadOrders ==
    /\ pc = "order_load"
    /\ stages' = Append(stages, "aggregate")
    /\ order_files' = OrderFiles(dir)
    /\ IF order_files' = <<>>
       THEN /\ Return("failed", "aggregate")
            /\ UNCHANGED <<disk, reads, menus, all_orders, invoice_numbers>>
       ELSE \E b \in Found(order_files'[1]) :
            LET r == load_data(order_files'[1], b)
                nums == InvoiceNumbers(r.rows)
            IN /\ disk' = [disk EXCEPT ![order_files'[1]] = b]
               /\ reads' = Append(reads, order_files'[1])
               /\ all_orders' = r.rows
               /\ IF r.ok /\ nums.ok
                  THEN /\ invoice_numbers' = nums.list
                       /\ menus' = Append(menus, "order")
                       /\ Goto("order_menu")
                  ELSE /\ Return("error", "aggregate")
                       /\ UNCHANGED <<menus, invoice_numbers>>
    /\ UNCHANGED <<requests, answer, exit_at, outputs, outputs0, dir,
                   selected_data_file, selected_template, all_data,
                   entity_type, selected_indices, orders, ctx, output_filename,
                   html>>

\* process_document lines 581-598: the answer to the invoice number menu,
\* the order lines of that number, their total, the file name and the
\* context.  A quantity or price int() rejects ends the request in error.
SelectOrder ==
    /\ pc = "order_menu"
    /\ \E i \in 1..Len(invoice_numbers) :
        LET num == invoice_numbers[i]
            lines == FilterByInvoice(all_orders, num)
            total == TotalSum(lines)
        IN /\ selected_indices' = <<i - 1>>
           /\ orders' = lines
           /\ IF total.ok
              THEN /\ output_filename' = OrderFileName(num)
                   /\ ctx' = Ctx({"invoice_number", "orders", "total"}, NoRecord,
                                 lines, <<>>, num, total.n)
                   /\ Goto("bind")
              ELSE /\ UNCHANGED <<ctx, output_filename>>
                   /\ Return("error", "aggregate")
    /\ UNCHANGED <<requests, answer, exit_at, stages, outputs, outputs0, dir,
                   disk, reads, menus, selected_data_file, selected_template,
                   all_data, entity_type, order_files, all_orders,
                   invoice_numbers, html>>

\* The output directory after a file of that name is written.
Written(out, name, stamp) ==
    {a \in out : a.name # name} \cup {[name |-> name, stamp |-> stamp]}

\* A generate_pdf that opens the output file before it renders.
BindOpensOutputFirst ==
    /\ pc = "bind"
    /\ stages' = Append(stages, "bind")
    /\ outputs' = Written(outputs, output_filename, requests)
    /\ LET r == Render(selected_template, ctx)
       IN IF r.ok
          THEN html' = r.html /\ Goto("write")
          ELSE UNCHANGED html /\ Return("error", "bind")
    /\ UNCHANGED <<requests, answer, exit_at, outputs0, dir, disk, reads,
                   menus, selected_data_file, selected_template, all_data,
                   entity_type, selected_indices, order_files, all_orders,
                   invoice_numbers, orders, ctx, output_filename>>

\* generate_pdf lines 462-467: the template is read and rendered.
Bind ==
    /\ pc = "bind"
    /\ stages' = Append(stages, "bind")
    /\ LET r == Render(selected_template, ctx)
       IN IF r.ok
          THEN html' = r.html /\ Goto("write")
          ELSE UNCHANGED html /\ Return("error", "bind")
    /\ UNCHANGED <<requests, answer, exit_at, outputs, outputs0, dir, disk,
                   reads, menus, selected_data_file, selected_template,
                   all_data, entity_type, selected_indices, order_files,
                   all_orders, invoice_numbers, orders, ctx, output_filename>>

\* generate_pdf line 470 and process_document line 609: the PDF is written
\* (over a file of the same name) and the request returns True.
Write ==
    /\ pc = "write"
    /\ stages' = Append(stages, "write")
    /\ outputs' = Written(outputs, output_filename, requests)
    /\ Return("success", "")
    /\ UNCHANGED <<requests, answer, exit_at, outputs0, dir, disk, reads,
                   menus, selected_data_file, selected_template, all_data,
                   entity_type, selected_indices, order_files, all_orders,
                   invoice_numbers, orders, ctx, output_filename, html>>

\* generate_pdf line 470: write_pdf raises (the output file cannot be
\* opened for writing); nothing is written.
WriteFails ==
    /\ pc = "write"
    /\ stages' = Append(stages, "write")
    /\ Return("error", "write")
    /\ UNCHANGED <<requests, answer, exit_at, outputs, outputs0, dir, disk,
                   reads, menus, selected_data_file, selected_template,
                   all_data, entity_type, selected_indices, order_files,
                   all_orders, invoice_numbers, orders, ctx, output_filename,
                   html>>

\* The locals of process_document are gone when it has returned, and the
\* directories may change before the next request.
Forget ==
    /\ stages' = <<>>
    /\ dir' = {}
    /\ disk' = <<>>
    /\ reads' = <<>>
    /\ menus' = <<>>
    /\ selected_data_file' = <<>>
    /\ selected_template' = ""
    /\ all_data' = <<>>
    /\ entity_type' = <<>>
    /\ selected_indices' = <<>>
    /\ order_files' = <<>>
    /\ all_orders' = <<>>
    /\ invoice_numbers' = <<>>
    /\ orders' = <<>>
    /\ ctx' = NoCtx
    /\ output_filename' = <<>>
    /\ html' = NoHtml

\* ask_continue lines 433-434 and main lines 645, 656: an affirmative
\* answer, and the loop goes round.
ContinueYes ==
    /\ pc = "ask"
    /\ pc' = "idle"
    /\ answer' = "yes"
    /\ asked' = 0
    /\ outcome' = "none"
    /\ failed_at' = ""
    /\ Forget
    /\ UNCHANGED <<requests, exit_at, outputs, outputs0>>

\* ask_continue lines 435-436 and main lines 645-646, 656-657: a negative
\* answer ends the loop.
ContinueNo ==
    /\ pc = "ask"
    /\ pc' = "done"
    /\ answer' = "no"
    /\ Forget
    /\ UNCHANGED <<requests, asked, exit_at, outcome, failed_at, outputs, outputs0>>

MenuPcs == {"data_menu", "tpl_menu", "invoice_menu", "product_menu", "order_menu", "ask"}

\* A process_document that catches the ExitCommand of its menus and returns
\* False: main goes on to ask_continue.
ExitCommandSwallowed ==
    /\ pc \in MenuPcs
    /\ exit_at' = pc
    /\ IF pc = "ask"
       THEN /\ pc' = "done"
            /\ answer' = "exit"
            /\ UNCHANGED <<asked, outcome, failed_at>>
       ELSE /\ pc' = "ask"
            /\ asked' = asked + 1
            /\ outcome' = "failed"
            /\ failed_at' = "menu"
            /\ UNCHANGED answer
    /\ Forget
    /\ UNCHANGED <<requests, outputs, outputs0>>

\* display_menu lines 372-373, display_multi_select_menu lines 405-406,
\* ask_continue lines 430-431, main lines 647-649 and 658-660: an exit
\* command at a prompt raises ExitCommand, which ends the loop.  At a menu
\* the request ends with it (process_document lines 496-497, 606-607); at
\* the continue prompt the request has ended before.
ExitCommand ==
    /\ pc \in MenuPcs
    /\ pc' = "done"
    /\ exit_at' = pc
    /\ IF pc = "ask"
       THEN answer' = "exit" /\ UNCHANGED <<outcome, failed_at>>
       ELSE outcome' = "exit" /\ failed_at' = "" /\ UNCHANGED answer
    /\ Forget
    /\ UNCHANGED <<requests, asked, outputs, outputs0>>

Next ==
    \/ StartRequest
    \/ ChooseDataFile
    \/ ChooseTemplate
    \/ LoadData
    \/ ResolveEntity
    \/ SelectInvoice
    \/ ChooseProducts
    \/ LoadOrders
    \/ SelectOrder
    \/ Bind
    \/ Write
    \/ WriteFails
    \/ ContinueYes
    \/ ContinueNo
    \/ ExitCommand

Spec == Init /\ [][Next]_vars

\* ------------------------------------------------------------------ claims
\* The request has passed its aggregation step: a context was handed to
\* generate_pdf, or the step raised.
Aggregated == pc \in {"bind", "write", "ask"} /\ selected_indices # <<>>
InInvoicePath == entity_type = K_invoice /\ Aggregated
InOrderPath == entity_type = K_order /\ Aggregated
InProductPath == entity_type = K_product /\ pc \in {"bind", "write", "ask"} /\ ctx # NoCtx

\* The invoice record and the invoice number the menus' answers select.
SelectedInvoice == all_data[selected_indices[1] + 1]
SelectedNumber == invoice_numbers[selected_indices[1] + 1]

\* The positions of the records of all whose invoice_number equals target.
Matching(all, target) ==
    {i \in 1..Len(all) : PyEq(Get(all[i], "invoice_number"), target)}

\* quantity * price of one order line, each read as int() reads it.
LineAmount(o) == PyInt(Get0(o, "quantity")).n * PyInt(Get0(o, "price")).n

\* The sum of the line amounts over a set of positions, taken in any order.
RECURSIVE SumOver(_, _)
SumOver(S, all) ==
    IF S = {} THEN 0
    ELSE LET i == CHOOSE x \in S : TRUE
         IN LineAmount(all[i]) + SumOver(S \ {i}, all)

\* C1: in the order path the total placed in the context is the sum of
\* quantity * price over exactly the loaded records whose invoice_number
\* equals the selected number, whatever the order of the records.
C1_TotalIsSumOverMatching ==
    (InOrderPath /\ "total" \in ctx.keys) =>
        /\ ctx.invoice_number = SelectedNumber
        /\ ctx.total = SumOver(Matching(all_orders, SelectedNumber), all_orders)

\* C1 witness: the two lines of invoice 3 (2 x 7000 and 1 x 1500) give 15500.
C1_Witness ==
    /\ InOrderPath /\ "total" \in ctx.keys
    /\ Len(ctx.orders) = 2
    /\ ctx.orders[1]["quantity"] = PyIntV(2) /\ ctx.orders[1]["price"] = PyIntV(7000)
    /\ ctx.orders[2]["quantity"] = PyIntV(1) /\ ctx.orders[2]["price"] = PyIntV(1500)
    /\ ctx.total = 15500

\* The k-th smallest element of a set of positions.
KthOf(S, k) == CHOOSE i \in S : Cardinality({j \in S : j < i}) = k - 1

\* res holds exactly the records of all whose invoice_number equals target,
\* each once, in the order of all.
IsFilterOf(res, all, target) ==
    /\ Len(res) = Cardinality(Matching(all, target))
    /\ \A k \in 1..Len(res) : res[k] = all[KthOf(Matching(all, target), k)]

\* C2: in the invoice path and in the order path the order lines kept are
\* exactly the loaded records whose invoice_number equals the target, in
\* their order, none merged, dropped or repeated; no match gives the empty
\* list and the invoice path goes on without an error.
C2_FilterKeepsExactlyMatching ==
    /\ InInvoicePath =>
        /\ IsFilterOf(orders, all_orders, SelectedInvoice["id"])
        /\ ctx.orders = orders
        /\ failed_at # "aggregate"
    /\ InOrderPath =>
        /\ IsFilterOf(orders, all_orders, SelectedNumber)
        /\ "orders" \in ctx.keys => ctx.orders = orders

\* C2 witness: two order lines of the same product and invoice are both
\* kept for that invoice.
C2_Witness ==
    /\ InInvoicePath
    /\ Len(all_orders) = 2 /\ Len(orders) = 2
    /\ orders[1]["product_name"] = orders[2]["product_name"]
    /\ ctx.orders = orders

\* The body the chosen data file was read from.
Source == disk[selected_data_file]

\* A loaded value is the source's: the same value or, of a CSV cell, the
\* value that prints as the cell's text.
SameAsSource(v, cell) == v = cell \/ (Source.kind = "csv" /\ PyStr(v) = cell.s)

\* C3: every record load_data returns has non-negative integers in its
\* quantity, price and invoice_number fields, and every other field as the
\* source has it, in source order.
C3_LoadedRecordsCoerced ==
    pc = "resolve" =>
        /\ Len(all_data) = Len(Source.rows)
        /\ \A i \in 1..Len(all_data) :
              /\ DOMAIN all_data[i] = DOMAIN Source.rows[i]
              /\ \A f \in DOMAIN all_data[i] :
                    IF f \in CoercedFields
                    THEN all_data[i][f].t = "int" /\ all_data[i][f].n >= 0
                    ELSE SameAsSource(all_data[i][f], Source.rows[i][f])

\* The order file of the order path was loaded without error.
OrdersLoaded ==
    /\ order_files # <<>>
    /\ load_data(order_files[1], disk[order_files[1]]).ok

\* int() of a field, 0 where int() rejects it.
Lenient(v) == IF PyInt(v).ok THEN PyInt(v).n ELSE 0
RECURSIVE LenientTotal(_)
LenientTotal(lines) ==
    IF lines = <<>> THEN 0
    ELSE Lenient(Get0(lines[1], "quantity")) * Lenient(Get0(lines[1], "price"))
         + LenientTotal(Tail(lines))

\* C4: once the order records are loaded and an invoice number is chosen,
\* computing the total never raises, and a malformed quantity or price
\* counts as 0 in it.
C4_MalformedNumbersNeverRaise ==
    (InOrderPath /\ OrdersLoaded) =>
        /\ failed_at # "aggregate"
        /\ "total" \in ctx.keys
        /\ ctx.total = LenientTotal(orders)

Kinds == {K_product, K_invoice, K_order}
\* The part of the chosen file's stem before its first underscore.
Token == SplitFirst(Stem(selected_data_file))
KnownIgnoringCase == \E k \in Kinds : Lower(Token) = k

\* C5: a data file whose token is none of product, invoice, order (letter
\* case aside) makes the request fail: no entity menu is shown and nothing
\* is written; a token that differs from a kind only in case is resolved.
C5_UnknownKindFailsCleanly ==
    selected_data_file # <<>> =>
        /\ ~KnownIgnoringCase =>
              /\ menus = <<>>
              /\ outputs = outputs0
              /\ pc \in {"tpl_menu", "load", "resolve", "ask"}
              /\ pc = "ask" => outcome = "failed"
        /\ KnownIgnoringCase => failed_at # "resolve"

\* C5 witness: the request for widget_1.json has failed at the resolution.
C5_Witness ==
    /\ pc = "ask"
    /\ selected_data_file = N_widget_json
    /\ outcome = "failed" /\ failed_at = "resolve"
    /\ reads = <<N_widget_json>>

StageOrder == <<"load", "resolve", "aggregate", "bind", "write">>
InRequest == pc \notin {"idle", "done"}

\* C6: the stages of a request run in the order load, resolve, aggregate,
\* bind, write; the write is reached only with the chosen template rendered
\* over the context; and a request that fails before the write leaves the
\* output directory as it found it.
C6_StagesInOrderNoPartialArtifact ==
    InRequest =>
        /\ Len(stages) <= Len(StageOrder)
        /\ stages = SubSeq(StageOrder, 1, Len(stages))
        /\ pc = "write" =>
              /\ stages = SubSeq(StageOrder, 1, Len(StageOrder) - 1)
              /\ ctx # NoCtx
              /\ html = [tpl |-> selected_template, ctx |-> ctx]
        /\ outputs # outputs0 => stages = StageOrder /\ outcome = "success"
        /\ failed_at \in {"list", "load", "resolve", "aggregate", "bind"} =>
              outputs = outputs0

\* C6 witness: a request failed in the template binding, and the file an
\* earlier request wrote is as it was.
C6_Witness ==
    /\ pc = "ask" /\ outcome = "error" /\ failed_at = "bind"
    /\ outputs0 # {}
    /\ outputs = outputs0

\* The invoice path found no order file, or could not load the one found.
NoOrderData == order_files = <<>> \/ ~load_data(order_files[1], disk[order_files[1]]).ok
IsWritten == \E a \in outputs : a.name = output_filename /\ a.stamp = requests

C8_ProductsAtSelectedPositionsInOrder ==
    InProductPath =>
        LET S == {selected_indices[k] + 1 : k \in 1..Len(selected_indices)}
        IN /\ Len(ctx.products) = Cardinality(S)
           /\ \A k \in 1..Len(ctx.products) : ctx.products[k] = all_data[KthOf(S, k)]

SingleName(kind, id) == kind \o <<"_">> \o PyStr(id) \o E_pdf
MultiName(kind, count) == kind \o <<"s", "_">> \o NatStr(count) \o E_pdf
Named == pc \in {"bind", "write", "ask"} /\ output_filename # <<>>

\* The names the two patterns give the invoice and the product paths.
InvoiceAndProductNames ==
    /\ entity_type = K_invoice => output_filename = SingleName(K_invoice, SelectedInvoice["id"])
    /\ entity_type = K_product =>
          output_filename = IF Len(selected_indices) = 1
                            THEN SingleName(K_product, all_data[selected_indices[1] + 1]["id"])
                            ELSE MultiName(K_product, Len(selected_indices))

\* C9 as stated: every path names its file "<kind>_<id>.pdf" or
\* "<kind>s_<count>.pdf"; in the order path the identifier is the selected
\* invoice number or an order line's id, the count that of the lines.
C9_NameFromKindInEveryPath ==
    Named =>
        /\ InvoiceAndProductNames
        /\ entity_type = K_order =>
              \/ output_filename = SingleName(K_order, SelectedNumber)
              \/ output_filename = MultiName(K_order, Len(orders))
              \/ \E k \in 1..Len(orders) : output_filename = SingleName(K_order, orders[k]["id"])

\* C9 amended: the invoice path names its file "invoice_<id>.pdf"; the
\* product path "product_<id>.pdf" for a selection of one entry and
\* "products_<count>.pdf" otherwise, the count that of the entries; the order
\* path "order_invoice_<invoice number>.pdf".
C9_NameFromKindAndSelection ==
    Named =>
        /\ InvoiceAndProductNames
        /\ entity_type = K_order =>
              output_filename = K_order \o <<"_">> \o K_invoice \o <<"_">> \o PyStr(SelectedNumber) \o E_pdf

\* C9 witness: the order path for invoice 3 is about to write
\* order_invoice_3.pdf.
C9_Witness ==
    /\ pc = "write" /\ entity_type = K_order
    /\ output_filename = <<"o","r","d","e","r","_","i","n","v","o","i","c","e","_","3",".","p","d","f">>

\* C10: the invoice numbers offered in the order path hold each truthy
\* invoice_number of the loaded records exactly once, none that no record
\* has, never 0, in ascending order; so each has a matching record.
C10_InvoiceNumbersDistinctSorted ==
    (entity_type = K_order /\ menus = <<"order">>) =>
        /\ \A i \in 1..Len(all_orders) :
              PyTruthy(Get(all_orders[i], "invoice_number")) =>
                  Cardinality({k \in 1..Len(invoice_numbers) :
                      PyEq(invoice_numbers[k], Get(all_orders[i], "invoice_number"))}) = 1
        /\ \A k \in 1..Len(invoice_numbers) :
              /\ Matching(all_orders, invoice_numbers[k]) # {}
              /\ PyTruthy(invoice_numbers[k])
              /\ ~PyEq(invoice_numbers[k], PyIntV(0))
        /\ \A k, l \in 1..Len(invoice_numbers) :
              k < l => PyLess(invoice_numbers[k], invoice_numbers[l])

\* C10 witness: records of invoice 3 and then invoice 1 are offered as 1, 3.
C10_Witness ==
    /\ pc = "order_menu"
    /\ Len(all_orders) = 2
    /\ all_orders[1]["invoice_number"] = PyIntV(3)
    /\ all_orders[2]["invoice_number"] = PyIntV(1)
    /\ invoice_numbers = <<PyIntV(1), PyIntV(3)>>


\* The order path has loaded its order records and listed their numbers.
OrdersGrouped == entity_type = K_order /\ menus = <<"order">>

\* C11: in the order path the records grouped, filtered and summed are those
\* of the data file the user chose, and that file is the only one read in
\* the request, read once.
C11_OrderPathReadsChosenSourceOnce ==
    /\ (entity_type = K_order /\ pc \notin {"resolve", "order_load"}) =>
          reads = <<selected_data_file>>
    /\ OrdersGrouped =>
          /\ all_orders = all_data
          /\ \A k \in 1..Len(orders) : \E i \in 1..Len(all_data) : orders[k] = all_data[i]

\* process_document has ended by returning or by raising an error.
Ended == outcome \in {"success", "failed", "error"}

\* The continue prompt has been shown once for every ended request and for
\* no other; the program has ended only on an answer or an exit command.
PromptedOncePerOutcome ==
    /\ asked \in {0, 1}
    /\ Ended <=> asked = 1
    /\ pc = "ask" => Ended
    /\ Ended => pc \in {"ask", "done"}
    /\ pc = "done" => (answer \in {"no", "exit"} \/ exit_at # "")

\* C12: requests run one at a time; after every outcome of a request
\* (success, reported failure, raised error) the continue prompt is shown
\* exactly once before any further request; a request starts only at the
\* start of the program or after an affirmative answer, never by itself
\* after a failure; a negative answer ends the program; and an error raised
\* in a request never ends the program without the prompt.
C12_PromptOnceAfterEveryOutcome ==
    [][ /\ PromptedOncePerOutcome'
        /\ requests' # requests =>
              /\ requests' = requests + 1
              /\ pc = "idle" /\ asked = 0
              /\ requests = 0 \/ answer = "yes"
        /\ (pc = "ask" /\ pc' # "ask") =>
              \/ answer' = "yes" /\ pc' = "idle" /\ requests' = requests
              \/ answer' \in {"no", "exit"} /\ pc' = "done"
        /\ (pc' = "done" /\ outcome' = "error") => pc = "ask"
      ]_vars

\* C12 witness: the second request, begun after an affirmative answer, has
\* raised an error and the continue prompt is shown.
C12_Witness ==
    /\ pc = "ask" /\ requests = 2
    /\ answer = "yes"
    /\ outcome = "error"
    /\ asked = 1

\* C13: an exit command at any prompt (data file menu, template menu,
\* invoice, product or invoice number menu, continue prompt) ends the main
\* loop at once: no further prompt is shown, no further request starts and
\* the request in progress writes no artifact; nothing happens after the
\* loop has ended.
C13_ExitCommandEndsLoop ==
    [][ /\ pc # "done"
        /\ exit_at' # exit_at =>
              /\ pc \in MenuPcs /\ exit_at' = pc
              /\ pc' = "done"
              /\ requests' = requests
              /\ asked' = asked
              /\ outputs' = outputs
        /\ (pc' = "done" /\ outcome' = "exit") => outputs' = outputs0'
      ]_vars

\* C13 witness: an exit command at the continue prompt shown after an error
\* has ended the loop.
C13_Witness ==
    /\ pc = "done"
    /\ exit_at = "ask" /\ answer = "exit"
    /\ outcome = "error"
    /\ asked = 1
====
